---- MODULE Spec2Model ----
(***************************************************************************)
(* Model of FrameProcessor (pixelle_video/services/frame_processor.py):    *)
(* one invocation of FrameProcessor.__call__ on one StoryboardFrame, and   *)
(* (SpecPair, SpecTwins) two invocations run as coroutines on one event    *)
(* loop.                                                                   *)
(*                                                                         *)
(* The frame, the config and the outcome of every external capability      *)
(* (TTS, media generation, HTTP download, ffmpeg probe, HTML composer,     *)
(* VideoService) are drawn nondeterministically; the control flow and the  *)
(* assignments to the frame are those of the source.                       *)
(*                                                                         *)
(* Durations are counted in ticks of 1/2000 s, so that the size-based      *)
(* estimate file_size / 2000 seconds is exactly file_size ticks.           *)
(***************************************************************************)
EXTENDS Integers, Sequences, FiniteSets, TLC

VARIABLES
    frame,          \* the StoryboardFrame being processed (mutated in place)
    entry,          \* the frame's fields when __call__ was entered
    config,         \* the StoryboardConfig (immutable)
    pc,             \* position inside __call__
    calls,          \* external calls issued so far, in order
    fs,             \* the filesystem: path -> content
    events,         \* ProgressEvents handed to progress_callback, in order
    media_result,   \* result of core.media awaiting its download
    progress_callback, \* the callback argument of __call__, or None
    error,          \* the exception that left __call__, or NoError
    other           \* the invocation suspended at an await, if any: <<>> or
                    \* <<its frame, entry, config, pc, calls, ...>>

vars == <<frame, entry, config, pc, calls, fs, events, media_result,
          progress_callback, error, other>>

----------------------------------------------------------------------------
(* Bounds of the model *)

\* the storyboard has MaxIndex + 1 frames; the frame is its first or its last
MaxIndex == 1
\* ffmpeg probes and generators report one of MaxDur durations
MaxDur == 2

----------------------------------------------------------------------------
(* Values *)

None == "None"
NoPath == <<>>
NoError == [at |-> None, what |-> None]

\* a duration that is None or 0.0: falsy in `if frame.duration`
NoDuration == 0
\* ticks per second: the divisor of the size-based estimate
TicksPerSecond == 2000
\* 5.0 s, the silent video's default duration
DefaultSilentSeconds == 5
\* 1.0 s, the floor of the audio estimate and the video probe's default
FallbackSeconds == 1

TaskId == "task"
Narration == "narration"
Title == "title"
VideoFps == 30
MediaWidth == 1024
MediaHeight == 1024
MediaUrl == "http://media"

\* the audio clips TTS can synthesize, and the videos a generator can return
Clips == 1..MaxDur
\* the playable duration of clip k: 8.2 s, 16.4 s, ...
ClipDuration(k) == 16400 * k
\* the size in bytes of clip k's audio file: below 2000 bytes for the first
ClipSize(k) == 1500 * k
\* durations an ffmpeg probe or a generator can report
Durations == {ClipDuration(k) : k \in Clips}
\* the duration a caller sets on the frame: that of the audio it supplies
PresetDuration == ClipDuration(1)

\* workflow identifiers, as character sequences
WfImage == <<"i","m","g","_","d">>
WfVideo == <<"v","i","d","e","o","_","w">>
WfI2V == <<"I","2","V","_","s">>
Workflows == {<<>>, WfImage, WfVideo, WfI2V}

----------------------------------------------------------------------------
(* Strings: str.lower() and the `in` substring test *)

LowerChar(c) ==
    CASE c = "A" -> "a" [] c = "B" -> "b" [] c = "C" -> "c" [] c = "D" -> "d"
      [] c = "E" -> "e" [] c = "F" -> "f" [] c = "G" -> "g" [] c = "H" -> "h"
      [] c = "I" -> "i" [] c = "J" -> "j" [] c = "K" -> "k" [] c = "L" -> "l"
      [] c = "M" -> "m" [] c = "N" -> "n" [] c = "O" -> "o" [] c = "P" -> "p"
      [] c = "Q" -> "q" [] c = "R" -> "r" [] c = "S" -> "s" [] c = "T" -> "t"
      [] c = "U" -> "u" [] c = "V" -> "v" [] c = "W" -> "w" [] c = "X" -> "x"
      [] c = "Y" -> "y" [] c = "Z" -> "z" [] OTHER -> c

Lower(s) == [i \in 1..Len(s) |-> LowerChar(s[i])]

Contains(sub, s) ==
    \E i \in 0..(Len(s) - Len(sub)) :
        \A j \in 1..Len(sub) : s[i + j] = sub[j]

VideoMarker == <<"v","i","d","e","o","_">>
I2VMarker == <<"i","2","v","_">>

----------------------------------------------------------------------------
(* Paths and the filesystem *)

\* get_task_frame_path(task_id, frame_index, kind)
get_task_frame_path(task_id, index, kind) == <<task_id, index, kind>>

\* mutant: the temp file's name leaves out the frame's index
TempOverlayPath_Unindexed(task_id, index) ==
    get_task_frame_path(task_id, 0, "video") \o <<"_overlay.mp4">>

\* get_task_frame_path(task_id, index, "video") + "_overlay.mp4"
TempOverlayPath(task_id, index) ==
    get_task_frame_path(task_id, index, "video") \o <<"_overlay.mp4">>

\* a path supplied by the caller (asset-based pipelines)
AssetPath(index, kind) == <<"assets", index, kind>>

Exists(path) == path \in DOMAIN fs

WriteFile(f, path, content) ==
    [p \in DOMAIN f \cup {path} |-> IF p = path THEN content ELSE f[p]]

DeleteFile(f, path) == [p \in DOMAIN f \ {path} |-> f[p]]

\* an external call: its arguments, whether it returned, and what it returned
Call(op, args, ok, ret) == [op |-> op, args |-> args, ok |-> ok, ret |-> ret]
Failed(op, args) == Call(op, args, FALSE, None)

----------------------------------------------------------------------------
(* Inputs *)

Frames ==
    { [ index               |-> i,
        narration           |-> Narration,
        image_prompt        |-> ip,
        audio_path          |-> IF a THEN AssetPath(i, "audio") ELSE NoPath,
        duration            |-> d,
        image_path          |-> IF im THEN AssetPath(i, "image") ELSE NoPath,
        video_path          |-> IF v THEN AssetPath(i, "video") ELSE NoPath,
        media_type          |-> mt,
        composed_image_path |-> NoPath,
        video_segment_path  |-> NoPath ] :
      i \in {0, MaxIndex}, ip \in {None, "prompt"}, a \in BOOLEAN,
      d \in {NoDuration, PresetDuration}, im \in BOOLEAN, v \in BOOLEAN,
      mt \in {None, "image", "video", "other"} }

\* voice_id, tts_speed, tts_workflow and ref_audio: all configured or none
TtsOptions ==
    { [voice_id |-> None, tts_speed |-> None, tts_workflow |-> None,
       ref_audio |-> None],
      [voice_id |-> "voice", tts_speed |-> "speed", tts_workflow |-> "ttswf",
       ref_audio |-> "ref"] }

\* mutant: a pre-supplied audio_path does not stop synthesis
NeedsTTS_IgnoresAudioPath(f, c) == c.tts_inference_mode # None

NeedsTTS(f, c) == f.audio_path = NoPath /\ c.tts_inference_mode # None

Configs ==
    { [ task_id            |-> TaskId,
        tts_inference_mode |-> m,
        voice_id           |-> o.voice_id,
        tts_speed          |-> o.tts_speed,
        tts_workflow       |-> o.tts_workflow,
        ref_audio          |-> o.ref_audio,
        media_workflow     |-> w,
        source_image_url   |-> u,
        media_width        |-> MediaWidth,
        media_height       |-> MediaHeight,
        template_params    |-> None,
        frame_template     |-> t,
        video_fps          |-> VideoFps ] :
      m \in {None, "local", "comfyui"}, o \in TtsOptions, w \in Workflows,
      u \in {None, "url"}, t \in {None, "tpl"} }

\* the files of the caller-supplied paths exist; the audio is the first clip
AssetFiles(f) ==
    LET paths == {f.audio_path, f.image_path, f.video_path} \ {NoPath}
    IN  [p \in paths |-> IF p[3] = "audio" THEN <<"audio", 1>>
                         ELSE <<"asset", p[3]>>]

NoResult == [media_type |-> None, url |-> None, duration |-> NoDuration]

\* Inputs the run never reads are given one value: the TTS options are
\* configured exactly when TTS is invoked, the source image URL is unset
\* unless the workflow is I2V, the media workflow of a frame without a prompt
\* is unset or the I2V one, and the media_type of a frame with a prompt
\* (overwritten by the generator's) is unset or "video".
Relevant(f, c) ==
    /\ (c.voice_id # None <=> NeedsTTS(f, c))
    /\ (c.source_image_url # None =>
            f.image_prompt # None /\ c.media_workflow = WfI2V)
    /\ (f.image_prompt = None => c.media_workflow \in {<<>>, WfI2V})
    /\ (f.image_prompt # None => f.media_type \in {None, "video"})

Init ==
    /\ frame \in Frames
    /\ entry = frame
    /\ config \in Configs
    /\ Relevant(frame, config)
    /\ progress_callback \in {None, "callback"}
    /\ pc = "audio"
    /\ calls = <<>>
    /\ fs = AssetFiles(frame)
    /\ events = <<>>
    /\ media_result = NoResult
    /\ error = NoError
    /\ other = <<>>

----------------------------------------------------------------------------
(* __call__: flags, progress checkpoints, exits *)

frame_num == frame.index + 1
total_frames == MaxIndex + 1

\* mutant: generation runs only when a callback is supplied
needs_generation_UnderCallback ==
    entry.image_prompt # None /\ progress_callback # None

\* mutant: only a pre-supplied video counts as existing media
has_existing_media_VideoOnly == entry.video_path # NoPath

has_existing_media == entry.image_path # NoPath \/ entry.video_path # NoPath
needs_generation == entry.image_prompt # None

ProgressEvent(progress, step, action) ==
    [ event_type    |-> "frame_step",
      progress      |-> progress,
      frame_current |-> frame_num,
      frame_total   |-> total_frames,
      step          |-> step,
      action        |-> action ]

\* the checkpoint's callback returns
Reported(e) ==
    events' = IF progress_callback # None THEN Append(events, e) ELSE events

\* mutant: the handler wraps what it caught in an error of its own
Raise_Wrapped(err) ==
    /\ pc' = "raised"
    /\ error' = [at |-> pc, what |-> "FrameProcessingError"]

\* an exception leaves __call__ (logged, then re-raised unchanged)
Raise(err) ==
    /\ pc' = "raised"
    /\ error' = [at |-> pc, what |-> err]

\* mutant: the callback's exception is caught and the frame returned
CallbackRaises_Swallowed(e) ==
    /\ progress_callback # None
    /\ events' = Append(events, e)
    /\ pc' = "returned"
    /\ error' = [at |-> pc, what |-> "callback"]
    /\ UNCHANGED <<frame, calls, fs, media_result>>

\* the checkpoint's callback raises
CallbackRaises(e) ==
    /\ progress_callback # None
    /\ events' = Append(events, e)
    /\ Raise("callback")
    /\ UNCHANGED <<frame, calls, fs, media_result>>

\* mutant: composition placed before media generation
NextStep_ComposeBeforeMedia(step) ==
    CASE step = "audio" -> "compose"
      [] step = "compose" -> "media"
      [] step = "media" -> "segment"
      [] step = "segment" -> "returned"

\* mutant: after assembly the invocation never returns
NextStep_NeverReturns(step) ==
    CASE step = "audio" -> "media"
      [] step = "media" -> "compose"
      [] step = "compose" -> "segment"
      [] step = "segment" -> "assembled"

\* the order of the four steps inside the try block
NextStep(step) ==
    CASE step = "audio" -> "media"
      [] step = "media" -> "compose"
      [] step = "compose" -> "segment"
      [] step = "segment" -> "returned"

----------------------------------------------------------------------------
(* Step 1: audio *)

Opt(name, value) == IF value # None THEN {<<name, value>>} ELSE {}

\* mutant: the workflow and the reference audio are passed in every mode
TtsParams_EveryModeAlike(f, c) ==
    { <<"text", f.narration>>,
      <<"inference_mode", c.tts_inference_mode>>,
      <<"output_path", get_task_frame_path(c.task_id, f.index, "audio")>>,
      <<"index", f.index + 1>> }
    \cup Opt("workflow", c.tts_workflow) \cup Opt("voice", c.voice_id)
    \cup Opt("speed", c.tts_speed) \cup Opt("ref_audio", c.ref_audio)

\* tts_params: the keyword arguments of core.tts, as a set of <<key, value>>
TtsParams(f, c) ==
    { <<"text", f.narration>>,
      <<"inference_mode", c.tts_inference_mode>>,
      <<"output_path", get_task_frame_path(c.task_id, f.index, "audio")>>,
      <<"index", f.index + 1>> }
    \cup
    ( IF c.tts_inference_mode = "local"
      THEN Opt("voice", c.voice_id) \cup Opt("speed", c.tts_speed)
      ELSE Opt("workflow", c.tts_workflow) \cup Opt("voice", c.voice_id)
           \cup Opt("speed", c.tts_speed) \cup Opt("ref_audio", c.ref_audio) )

AudioEvent == ProgressEvent(0, 1, "audio")

\* mutant: frame.audio_path is assigned the output path before core.tts returns
GenerateAudio_AssignsBeforeCall ==
    LET output_path == get_task_frame_path(config.task_id, frame.index, "audio")
        args == TtsParams(frame, config)
    IN  /\ calls' = Append(calls, Failed("tts", args))
        /\ frame' = [frame EXCEPT !.audio_path = output_path]
        /\ Raise("tts")
        /\ UNCHANGED <<fs, media_result>>

\* _step_generate_audio up to the return of core.tts
GenerateAudio ==
    LET output_path == get_task_frame_path(config.task_id, frame.index, "audio")
        args == TtsParams(frame, config)
    IN  \/ /\ calls' = Append(calls, Failed("tts", args))
           /\ Raise("tts")
           /\ UNCHANGED <<frame, fs, media_result>>
        \/ \E written \in BOOLEAN, k \in Clips :
                /\ calls' = Append(calls, Call("tts", args, TRUE, output_path))
                /\ fs' = IF written
                         THEN WriteFile(fs, output_path, <<"audio", k>>)
                         ELSE fs
                /\ frame' = [frame EXCEPT !.audio_path = output_path]
                /\ pc' = "audio_probe"
                /\ UNCHANGED <<media_result, error>>

\* mutant: the duration of a pre-supplied audio file is probed as well
AudioStep_ProbesSupplied ==
    /\ pc = "audio"
    /\ UNCHANGED <<other, entry, config, progress_callback>>
    /\ IF NeedsTTS(frame, config)
       THEN \/ CallbackRaises(AudioEvent)
            \/ Reported(AudioEvent) /\ GenerateAudio
       ELSE /\ pc' = IF frame.audio_path # NoPath THEN "audio_probe"
                     ELSE NextStep("audio")
            /\ UNCHANGED <<frame, calls, fs, events, media_result, error>>

AudioStep ==
    /\ pc = "audio"
    /\ UNCHANGED <<other, entry, config, progress_callback>>
    /\ IF NeedsTTS(frame, config)
       THEN \/ CallbackRaises(AudioEvent)
            \/ Reported(AudioEvent) /\ GenerateAudio
       ELSE /\ pc' = NextStep("audio")
            /\ UNCHANGED <<frame, calls, fs, events, media_result, error>>

\* max(1.0, file_size / 2000), in ticks
EstimatedAudioDuration(file_size) ==
    IF file_size > FallbackSeconds * TicksPerSecond
    THEN file_size
    ELSE FallbackSeconds * TicksPerSecond

\* what _get_audio_duration returns for an existing file: the probed
\* duration, or the estimate when ffmpeg.probe fails
AudioDurations(path) ==
    LET k == fs[path][2]
    IN  {ClipDuration(k), EstimatedAudioDuration(ClipSize(k))}

\* _get_audio_duration and the assignment of frame.duration
AudioProbe ==
    /\ pc = "audio_probe"
    /\ UNCHANGED <<other, entry, config, progress_callback, fs, events, media_result>>
    /\ IF Exists(frame.audio_path)
       THEN \E d \in AudioDurations(frame.audio_path) :
              /\ calls' = Append(calls, Call("probe_audio", frame.audio_path,
                                             TRUE, d))
              /\ frame' = [frame EXCEPT !.duration = d]
              /\ pc' = NextStep("audio")
              /\ UNCHANGED error
       ELSE \* ffmpeg.probe fails and os.path.getsize raises in the handler
            /\ calls' = Append(calls, Failed("probe_audio", frame.audio_path))
            /\ Raise("getsize")
            /\ UNCHANGED frame

----------------------------------------------------------------------------
(* Step 2: media *)

\* mutant: only "video_" marks a video workflow
is_video_workflow_VideoMarkerOnly(workflow_name) ==
    Contains(VideoMarker, Lower(workflow_name))

\* workflow_name = config.media_workflow or ""
is_video_workflow(workflow_name) ==
    \/ Contains(VideoMarker, Lower(workflow_name))
    \/ Contains(I2VMarker, Lower(workflow_name))

\* mutant: the I2V test without .lower()
is_i2v_workflow_CaseSensitive(workflow_name) ==
    Contains(I2VMarker, workflow_name)

is_i2v_workflow(workflow_name) == Contains(I2VMarker, Lower(workflow_name))

RequestedMediaType(c) ==
    IF is_video_workflow(c.media_workflow) THEN "video" ELSE "image"

\* mutant: the duration is passed to I2V workflows only
DurationParam_OnlyI2V(f, c) ==
    IF is_i2v_workflow(c.media_workflow) /\ f.duration # NoDuration
    THEN {<<"duration", f.duration>>}
    ELSE {}

\* media_params["duration"]: the frame's duration, for video workflows
DurationParam(f, c) ==
    IF is_video_workflow(c.media_workflow) /\ f.duration # NoDuration
    THEN {<<"duration", f.duration>>}
    ELSE {}

\* media_params["image_url"]: the source image, for I2V workflows
ImageUrlParam(c) ==
    IF is_i2v_workflow(c.media_workflow) /\ c.source_image_url # None
    THEN {<<"image_url", c.source_image_url>>}
    ELSE {}

\* media_params: the keyword arguments of core.media, as a set of <<key, value>>
MediaParams(f, c) ==
    { <<"prompt", f.image_prompt>>,
      <<"workflow", c.media_workflow>>,
      <<"media_type", RequestedMediaType(c)>>,
      <<"width", c.media_width>>,
      <<"height", c.media_height>>,
      <<"index", f.index + 1>> }
    \cup DurationParam(f, c) \cup ImageUrlParam(c)

\* the I2V workflow has no source image: ValueError before core.media
MissingSourceImage(c) ==
    is_i2v_workflow(c.media_workflow) /\ c.source_image_url = None

\* what core.media can return: images carry no duration
MediaResults ==
    { [media_type |-> k, url |-> MediaUrl, duration |-> d] :
        k \in {"image", "video", "other"}, d \in {NoDuration} \cup Durations }
    \ { r \in [media_type : {"image", "other"}, url : {MediaUrl},
               duration : Durations] : TRUE }

MediaEvent == ProgressEvent(25, 2, "media")

\* mutant: media_type is the kind requested from the workflow name
StoredMediaType_Requested(r, c) == RequestedMediaType(c)

\* frame.media_type = media_result.media_type
StoredMediaType(r, c) == r.media_type

\* mutant: a result of unknown kind is downloaded like a video
GenerateMedia_DownloadsAnyKind ==
    IF MissingSourceImage(config)
    THEN /\ Raise("ValueError: I2V workflow requires image_url")
         /\ UNCHANGED <<frame, calls, fs, media_result>>
    ELSE /\ UNCHANGED fs
         /\ \/ /\ calls' = Append(calls,
                          Failed("media", MediaParams(frame, config)))
               /\ Raise("media")
               /\ UNCHANGED <<frame, media_result>>
            \/ \E r \in MediaResults :
                 /\ calls' = Append(calls,
                       Call("media", MediaParams(frame, config), TRUE, r))
                 /\ media_result' = r
                 /\ frame' = [frame EXCEPT
                                !.media_type = StoredMediaType(r, config)]
                 /\ pc' = "download" /\ UNCHANGED error

\* _step_generate_media up to the return of core.media
GenerateMedia ==
    IF MissingSourceImage(config)
    THEN /\ Raise("ValueError: I2V workflow requires image_url")
         /\ UNCHANGED <<frame, calls, fs, media_result>>
    ELSE /\ UNCHANGED fs
         /\ \/ /\ calls' = Append(calls,
                          Failed("media", MediaParams(frame, config)))
               /\ Raise("media")
               /\ UNCHANGED <<frame, media_result>>
            \/ \E r \in MediaResults :
                 /\ calls' = Append(calls,
                       Call("media", MediaParams(frame, config), TRUE, r))
                 /\ media_result' = r
                 /\ frame' = [frame EXCEPT
                                !.media_type = StoredMediaType(r, config)]
                 /\ IF r.media_type \in {"image", "video"}
                    THEN pc' = "download" /\ UNCHANGED error
                    ELSE Raise("ValueError: Unknown media type")

MediaStep ==
    /\ pc = "media"
    /\ UNCHANGED <<other, entry, config, progress_callback>>
    /\ IF needs_generation
       THEN \/ CallbackRaises(MediaEvent)
            \/ Reported(MediaEvent) /\ GenerateMedia
       ELSE IF has_existing_media
       THEN /\ pc' = NextStep("media")
            /\ UNCHANGED <<frame, calls, fs, events, media_result, error>>
       ELSE /\ frame' = [frame EXCEPT !.image_path = NoPath,
                                      !.media_type = None]
            /\ pc' = NextStep("media")
            /\ UNCHANGED <<calls, fs, events, media_result, error>>

\* mutant: the generator's duration is adopted only when none is known yet
StoreMedia_KeepsAudioDuration(f, r, local_path) ==
    IF r.media_type = "image"
    THEN [f EXCEPT !.image_path = local_path]
    ELSE IF r.duration # NoDuration /\ f.duration = NoDuration
    THEN [f EXCEPT !.video_path = local_path, !.duration = r.duration]
    ELSE [f EXCEPT !.video_path = local_path]

\* mutant: a downloaded image is stored as the frame's video
StoreMedia_ImageAsVideo(f, r, local_path) ==
    IF r.duration # NoDuration
    THEN [f EXCEPT !.video_path = local_path, !.duration = r.duration]
    ELSE [f EXCEPT !.video_path = local_path]

\* the frame after a download to local_path, before any video probe
StoreMedia(f, r, local_path) ==
    IF r.media_type = "image"
    THEN [f EXCEPT !.image_path = local_path]
    ELSE IF r.duration # NoDuration
    THEN [f EXCEPT !.video_path = local_path, !.duration = r.duration]
    ELSE [f EXCEPT !.video_path = local_path]

\* mutant: the destination file is opened before the status is checked
Download_OpensBeforeStatus ==
    LET output_path == get_task_frame_path(config.task_id, frame.index,
                                           media_result.media_type)
    IN  /\ pc = "download"
        /\ UNCHANGED <<other, entry, config, progress_callback, events,
                       media_result>>
        /\ \/ /\ calls' = Append(calls, Failed("download",
                                    <<media_result.url, output_path>>))
              /\ fs' = WriteFile(fs, output_path, <<>>)
              /\ Raise("http")
              /\ UNCHANGED frame
           \/ /\ calls' = Append(calls, Call("download",
                           <<media_result.url, output_path>>, TRUE, output_path))
              /\ fs' = WriteFile(fs, output_path,
                                 <<"download", media_result.url>>)
              /\ frame' = StoreMedia(frame, media_result, output_path)
              /\ pc' = IF media_result.media_type = "video"
                          /\ media_result.duration = NoDuration
                       THEN "video_probe"
                       ELSE NextStep("media")
              /\ UNCHANGED error

\* _download_media and the assignment of the local path
Download ==
    LET output_path == get_task_frame_path(config.task_id, frame.index,
                                           media_result.media_type)
    IN  /\ pc = "download"
        /\ UNCHANGED <<other, entry, config, progress_callback, events, media_result>>
        /\ \/ \* raise_for_status raises before the file is opened
              /\ calls' = Append(calls, Failed("download",
                                    <<media_result.url, output_path>>))
              /\ Raise("http")
              /\ UNCHANGED <<frame, fs>>
           \/ /\ calls' = Append(calls, Call("download",
                           <<media_result.url, output_path>>, TRUE, output_path))
              /\ fs' = WriteFile(fs, output_path,
                                 <<"download", media_result.url>>)
              /\ frame' = StoreMedia(frame, media_result, output_path)
              /\ pc' = IF media_result.media_type = "video"
                          /\ media_result.duration = NoDuration
                       THEN "video_probe"
                       ELSE NextStep("media")
              /\ UNCHANGED error

\* what ffmpeg.probe yields for the downloaded video: its duration, or
\* NoDuration when probing fails
VideoProbes == Durations \cup {NoDuration}

\* mutant: a failed probe falls back to the duration the frame already has
VideoDuration_AudioFallback(probe) ==
    IF probe # NoDuration THEN probe
    ELSE IF frame.duration # NoDuration THEN frame.duration
    ELSE FallbackSeconds * TicksPerSecond

\* what _get_video_duration returns: the probed duration, or 1.0 s
VideoDuration(probe) ==
    IF probe # NoDuration THEN probe
    ELSE FallbackSeconds * TicksPerSecond

\* _get_video_duration and the assignment of frame.duration
VideoProbe ==
    /\ pc = "video_probe"
    /\ UNCHANGED <<other, entry, config, progress_callback, fs, events,
                   media_result, error>>
    /\ \E probe \in VideoProbes :
         LET d == VideoDuration(probe)
         IN  /\ calls' = Append(calls,
                    Call("probe_video", frame.video_path, TRUE,
                         [probed |-> probe # NoDuration, duration |-> d]))
             /\ frame' = [frame EXCEPT !.duration = d]
    /\ pc' = NextStep("media")

----------------------------------------------------------------------------
(* Step 3: composition *)

\* mutant: a video frame's raw video is passed through as well
RawComposedPath_VideoToo(f) ==
    IF f.media_type = "video" /\ f.video_path # NoPath
    THEN f.video_path
    ELSE IF f.media_type = "image" /\ f.image_path # NoPath
    THEN f.image_path
    ELSE NoPath

\* composed_image_path when config.frame_template is None
RawComposedPath(f) ==
    IF f.media_type = "video" /\ f.video_path # NoPath
    THEN NoPath
    ELSE IF f.media_type = "image" /\ f.image_path # NoPath
    THEN f.image_path
    ELSE NoPath

\* mutant: the composer is handed media only for a frame that was generated
ComposeMediaPath_PromptOnly(f) ==
    IF f.image_prompt = None THEN NoPath
    ELSE IF f.media_type = "video" THEN f.video_path ELSE f.image_path

\* the visual base handed to the HTML generator
ComposeMediaPath(f) ==
    IF f.media_type = "video" THEN f.video_path ELSE f.image_path

\* mutant: ext carries the 0-based index
ComposeExt_ZeroBased(f, c) ==
    {<<"index", f.index>>} \cup Opt("params", c.template_params)

\* ext: the 1-based index plus config.template_params
ComposeExt(f, c) ==
    {<<"index", f.index + 1>>} \cup Opt("params", c.template_params)

ComposeArgs(f, c) ==
    [ template    |-> c.frame_template,
      title       |-> Title,
      text        |-> f.narration,
      image       |-> ComposeMediaPath(f),
      ext         |-> ComposeExt(f, c),
      output_path |-> get_task_frame_path(c.task_id, f.index, "composed") ]

\* mutant: the fraction of step 3 with media is mistyped
ComposeProgress_Mistyped ==
    IF needs_generation \/ has_existing_media THEN 5 ELSE 33

ComposeProgress == IF needs_generation \/ has_existing_media THEN 50 ELSE 33

ComposeEvent == ProgressEvent(ComposeProgress, 3, "compose")

\* mutant: a failed rendering of the template is tried a second time
Composed_Retries(f, c, files, ok) ==
    IF c.frame_template = None
    THEN [calls |-> <<>>, fs |-> files, error |-> None,
          frame |-> [f EXCEPT !.composed_image_path = RawComposedPath(f)]]
    ELSE LET args == ComposeArgs(f, c)
         IN  IF ok
             THEN [calls |-> <<Call("compose", args, TRUE, args.output_path)>>,
                   fs |-> WriteFile(files, args.output_path,
                                    <<"composed", args.image>>),
                   error |-> None,
                   frame |-> [f EXCEPT
                                !.composed_image_path = args.output_path]]
             ELSE [calls |-> <<Failed("compose", args), Failed("compose", args)>>,
                   fs |-> files, error |-> "compose", frame |-> f]

\* the composition of frame f over the files: the calls it issues, the
\* filesystem and the frame it leaves, the error it raises (or None)
Composed(f, c, files, ok) ==
    IF c.frame_template = None
    THEN [calls |-> <<>>, fs |-> files, error |-> None,
          frame |-> [f EXCEPT !.composed_image_path = RawComposedPath(f)]]
    ELSE LET args == ComposeArgs(f, c)
         IN  IF ok
             THEN [calls |-> <<Call("compose", args, TRUE, args.output_path)>>,
                   fs |-> WriteFile(files, args.output_path,
                                    <<"composed", args.image>>),
                   error |-> None,
                   frame |-> [f EXCEPT
                                !.composed_image_path = args.output_path]]
             ELSE [calls |-> <<Failed("compose", args)>>, fs |-> files,
                   error |-> "compose", frame |-> f]

\* _step_compose_frame
ComposeFrame ==
    \E ok \in BOOLEAN :
        LET r == Composed(frame, config, fs, ok)
        IN  /\ calls' = calls \o r.calls
            /\ fs' = r.fs
            /\ UNCHANGED media_result
            /\ IF r.error = None
               THEN /\ frame' = r.frame
                    /\ pc' = NextStep("compose")
                    /\ UNCHANGED error
               ELSE /\ Raise(r.error)
                    /\ UNCHANGED frame

ComposeStep ==
    /\ pc = "compose"
    /\ UNCHANGED <<other, entry, config, progress_callback>>
    /\ \/ CallbackRaises(ComposeEvent)
       \/ Reported(ComposeEvent) /\ ComposeFrame

----------------------------------------------------------------------------
(* Step 4: segment assembly.  Each branch yields the calls it issues, the  *)
(* filesystem it leaves, the error it raises (or NoError) and the          *)
(* segment path.  ok1 and ok2 tell whether the first and the second        *)
(* operation of the branch succeed when their inputs are there.            *)

Result(cs, f, err, segment_path) ==
    [calls |-> cs, fs |-> f, error |-> err, segment_path |-> segment_path]

\* mutant: the overlay is scaled to cover
OverlayCall_Cover(f, temp, ok) ==
    Call("overlay", [video |-> f.video_path,
                     overlay_image |-> f.composed_image_path,
                     output |-> temp, scale_mode |-> "cover"],
         ok, IF ok THEN temp ELSE None)

\* VideoService.overlay_image_on_video
OverlayCall(f, temp, ok) ==
    Call("overlay", [video |-> f.video_path,
                     overlay_image |-> f.composed_image_path,
                     output |-> temp, scale_mode |-> "contain"],
         ok, IF ok THEN temp ELSE None)

\* mutant: the narration is mixed over the video's own audio
MergeCall_MixesAudio(video_to_use, f, output_path, ok) ==
    Call("merge", [video |-> video_to_use, audio |-> f.audio_path,
                   output |-> output_path, replace_audio |-> FALSE,
                   audio_volume |-> 1],
         ok, IF ok THEN output_path ELSE None)

\* VideoService.merge_audio_video
MergeCall(video_to_use, f, output_path, ok) ==
    Call("merge", [video |-> video_to_use, audio |-> f.audio_path,
                   output |-> output_path, replace_audio |-> TRUE,
                   audio_volume |-> 1],
         ok, IF ok THEN output_path ELSE None)

\* shutil.copy2(video_to_use, output_path)
CopyCall(video_to_use, output_path, ok) ==
    Call("copy", [src |-> video_to_use, dst |-> output_path],
         ok, IF ok THEN output_path ELSE None)

\* mutant: the copy is not performed
CopiedFiles_NotCopied(files, src, dst) == files

\* mutant: the source is moved to the destination instead of copied
CopiedFiles_Moved(files, src, dst) ==
    DeleteFile(WriteFile(files, dst, files[src]), src)

\* the filesystem after shutil.copy2(src, dst)
CopiedFiles(files, src, dst) == WriteFile(files, dst, files[src])

\* the removal of the temp file, if it was created
CleanedUp(files, temp, has_template) ==
    IF has_template /\ temp \in DOMAIN files
    THEN DeleteFile(files, temp)
    ELSE files

\* the audio half of the video branch, then the removal of the temp file
VideoAudio(f, files, cs, video_to_use, output_path, temp, has_template, ok2) ==
    IF f.audio_path # NoPath
    THEN LET ok == ok2 /\ video_to_use \in DOMAIN files
                       /\ f.audio_path \in DOMAIN files
             cs2 == Append(cs, MergeCall(video_to_use, f, output_path, ok))
         IN  IF ok
             THEN Result(cs2,
                         CleanedUp(WriteFile(files, output_path,
                                       <<"merge", files[video_to_use],
                                         files[f.audio_path]>>),
                                   temp, has_template),
                         None, output_path)
             ELSE Result(cs2, files, "merge", NoPath)
    ELSE LET ok == ok2 /\ video_to_use \in DOMAIN files
             cs2 == Append(cs, CopyCall(video_to_use, output_path, ok))
         IN  IF ok
             THEN Result(cs2,
                         CleanedUp(CopiedFiles(files, video_to_use, output_path),
                                   temp, has_template),
                         None, output_path)
             ELSE Result(cs2, files, "copy", NoPath)

\* media_type == "video"
VideoBranch(f, c, files, ok1, ok2) ==
    LET output_path == get_task_frame_path(c.task_id, f.index, "segment")
        temp == TempOverlayPath(c.task_id, f.index)
        has_template == f.composed_image_path # NoPath
    IN  IF has_template
        THEN LET ok == ok1 /\ f.video_path \in DOMAIN files
                           /\ f.composed_image_path \in DOMAIN files
                 cs == <<OverlayCall(f, temp, ok)>>
             IN  IF ok
                 THEN VideoAudio(f,
                         WriteFile(files, temp,
                                   <<"overlay", files[f.video_path],
                                     files[f.composed_image_path]>>),
                         cs, temp, output_path, temp, has_template, ok2)
                 ELSE Result(cs, files, "overlay", NoPath)
        ELSE IF f.video_path = NoPath
        THEN Result(<<>>, files, "ValueError: No video available", NoPath)
        ELSE VideoAudio(f, files, <<>>, f.video_path, output_path, temp,
                        has_template, ok2)

\* mutant: a silent video always gets the default duration
SilentDuration_AlwaysDefault(f) ==
    DefaultSilentSeconds * TicksPerSecond

\* the duration of a silent video
SilentDuration(f) ==
    IF f.duration # NoDuration THEN f.duration
    ELSE DefaultSilentSeconds * TicksPerSecond

\* VideoService.create_video_from_image
RenderCall(image_to_use, f, c, output_path, ok) ==
    Call("render",
         IF f.audio_path # NoPath
         THEN [image |-> image_to_use, audio |-> f.audio_path,
               output |-> output_path, fps |-> c.video_fps,
               duration |-> NoDuration]
         ELSE [image |-> image_to_use, audio |-> NoPath,
               output |-> output_path, fps |-> c.video_fps,
               duration |-> SilentDuration(f)],
         ok, IF ok THEN output_path ELSE None)

\* mutant: the raw image is preferred to the composed one
ImageToUse_RawFirst(f) ==
    IF f.image_path # NoPath THEN f.image_path
    ELSE f.composed_image_path

\* the still image the segment is rendered from
ImageToUse(f) ==
    IF f.composed_image_path # NoPath THEN f.composed_image_path
    ELSE f.image_path

\* media_type == "image" or media_type is None
ImageBranch(f, c, files, ok1) ==
    LET output_path == get_task_frame_path(c.task_id, f.index, "segment")
        image_to_use == ImageToUse(f)
    IN  IF image_to_use = NoPath
        THEN Result(<<>>, files, "ValueError: No image available", NoPath)
        ELSE LET ok == ok1 /\ image_to_use \in DOMAIN files
                           /\ (f.audio_path # NoPath =>
                                 f.audio_path \in DOMAIN files)
                 cs == <<RenderCall(image_to_use, f, c, output_path, ok)>>
             IN  IF ok
                 THEN Result(cs,
                             WriteFile(files, output_path,
                                       <<"render", files[image_to_use]>>),
                             None, output_path)
                 ELSE Result(cs, files, "render", NoPath)

\* mutant: only media_type "image" takes the image branch
SegmentResult_ImageOnly(f, c, files, ok1, ok2) ==
    IF f.media_type = "video" THEN VideoBranch(f, c, files, ok1, ok2)
    ELSE IF f.media_type = "image"
    THEN ImageBranch(f, c, files, ok1)
    ELSE Result(<<>>, files, "ValueError: Unknown media type", NoPath)

\* the branch on frame.media_type
SegmentResult(f, c, files, ok1, ok2) ==
    IF f.media_type = "video" THEN VideoBranch(f, c, files, ok1, ok2)
    ELSE IF f.media_type = "image" \/ f.media_type = None
    THEN ImageBranch(f, c, files, ok1)
    ELSE Result(<<>>, files, "ValueError: Unknown media type", NoPath)

VideoProgress == IF needs_generation \/ has_existing_media THEN 75 ELSE 67

\* mutant: the checkpoint of step 4 repeats the step and tag of step 3
VideoEvent_RepeatsCompose == ProgressEvent(VideoProgress, 3, "compose")

VideoEvent == ProgressEvent(VideoProgress, 4, "video")

\* mutant: frame.video_segment_path is assigned the output path before the
\* video service has produced the segment
CreateVideoSegment_AssignsOnError ==
    \E ok1 \in BOOLEAN, ok2 \in BOOLEAN :
        LET r == SegmentResult(frame, config, fs, ok1, ok2)
        IN  /\ calls' = calls \o r.calls
            /\ fs' = r.fs
            /\ UNCHANGED media_result
            /\ frame' = [frame EXCEPT !.video_segment_path =
                   get_task_frame_path(config.task_id, frame.index, "segment")]
            /\ IF r.error = None
               THEN pc' = NextStep("segment") /\ UNCHANGED error
               ELSE Raise(r.error)

\* _step_create_video_segment
CreateVideoSegment ==
    \E ok1 \in BOOLEAN, ok2 \in BOOLEAN :
        LET r == SegmentResult(frame, config, fs, ok1, ok2)
        IN  /\ calls' = calls \o r.calls
            /\ fs' = r.fs
            /\ UNCHANGED media_result
            /\ IF r.error = None
               THEN /\ frame' = [frame EXCEPT
                                   !.video_segment_path = r.segment_path]
                    /\ pc' = NextStep("segment")
                    /\ UNCHANGED error
               ELSE /\ Raise(r.error)
                    /\ UNCHANGED frame

SegmentStep ==
    /\ pc = "segment"
    /\ UNCHANGED <<other, entry, config, progress_callback>>
    /\ \/ CallbackRaises(VideoEvent)
       \/ Reported(VideoEvent) /\ CreateVideoSegment

----------------------------------------------------------------------------
(* The specification *)

Next ==
    \/ AudioStep
    \/ AudioProbe
    \/ MediaStep
    \/ Download
    \/ VideoProbe
    \/ ComposeStep
    \/ SegmentStep

Spec == Init /\ [][Next]_vars

\* every external call returns or raises, and the event loop resumes the
\* coroutine after each await: a step that can be taken is taken
LiveSpec == Spec /\ WF_vars(Next)

Returned == pc = "returned"
Raised == pc = "raised"

----------------------------------------------------------------------------
(* Two invocations on one event loop.  __call__ is a coroutine: between    *)
(* two of its steps it is suspended at an await, and the loop may resume   *)
(* the other invocation.  The running invocation's state is in the         *)
(* variables above, the suspended one's in other; the filesystem is        *)
(* shared.                                                                 *)

\* the running invocation
Invocation ==
    [ frame |-> frame, entry |-> entry, config |-> config, pc |-> pc,
      calls |-> calls, events |-> events, media_result |-> media_result,
      progress_callback |-> progress_callback, error |-> error ]

\* an invocation about to start on frame f
Started(f, c, callback) ==
    [ frame |-> f, entry |-> f, config |-> c, pc |-> "audio",
      calls |-> <<>>, events |-> <<>>, media_result |-> NoResult,
      progress_callback |-> callback, error |-> NoError ]

\* the event loop suspends the running invocation and resumes the other
Switch ==
    /\ other # <<>>
    /\ other[1].pc \notin {"returned", "raised"}
    /\ frame' = other[1].frame
    /\ entry' = other[1].entry
    /\ config' = other[1].config
    /\ pc' = other[1].pc
    /\ calls' = other[1].calls
    /\ events' = other[1].events
    /\ media_result' = other[1].media_result
    /\ progress_callback' = other[1].progress_callback
    /\ error' = other[1].error
    /\ other' = <<Invocation>>
    /\ UNCHANGED fs

\* a frame of the storyboard that brings narration and a prompt only
PairFrame(i) ==
    [ index               |-> i,
      narration           |-> Narration,
      image_prompt        |-> "prompt",
      audio_path          |-> NoPath,
      duration            |-> NoDuration,
      image_path          |-> NoPath,
      video_path          |-> NoPath,
      media_type          |-> None,
      composed_image_path |-> NoPath,
      video_segment_path  |-> NoPath ]

\* the configs that run every step: TTS, generation, template
PairConfigs ==
    { c \in Configs : /\ c.tts_inference_mode = "local"
                      /\ c.media_workflow = WfVideo
                      /\ c.frame_template # None
                      /\ Relevant(PairFrame(0), c) }

\* two invocations under one config, on the first and the last frame of
\* the storyboard
InitPair ==
    /\ config \in PairConfigs
    /\ frame = PairFrame(0)
    /\ progress_callback = None
    /\ other = <<Started(PairFrame(MaxIndex), config, None)>>
    /\ entry = frame
    /\ pc = "audio"
    /\ calls = <<>>
    /\ fs = AssetFiles(frame)
    /\ events = <<>>
    /\ media_result = NoResult
    /\ error = NoError

\* the frames run twice: with a prompt only, with nothing but narration,
\* with audio and image pre-supplied
TwinFrames ==
    { PairFrame(0),
      [PairFrame(0) EXCEPT !.image_prompt = None],
      [PairFrame(0) EXCEPT !.image_prompt = None,
                           !.audio_path = AssetPath(0, "audio"),
                           !.duration = PresetDuration,
                           !.image_path = AssetPath(0, "image")] }

\* __call__ invoked twice on one frame under one config, with a
\* progress_callback and without
InitTwins ==
    /\ config \in PairConfigs
    /\ frame \in TwinFrames
    /\ progress_callback = "callback"
    /\ other = <<Started(frame, config, None)>>
    /\ entry = frame
    /\ pc = "audio"
    /\ calls = <<>>
    /\ fs = AssetFiles(frame)
    /\ events = <<>>
    /\ media_result = NoResult
    /\ error = NoError

NextPair ==
    \/ AudioStep
    \/ AudioProbe
    \/ MediaStep
    \/ Download
    \/ VideoProbe
    \/ ComposeStep
    \/ SegmentStep
    \/ Switch

SpecPair == InitPair /\ [][NextPair]_vars

SpecTwins == InitTwins /\ [][NextPair]_vars

\* the TTS options configured independently of each other
TtsConfigs ==
    { [c EXCEPT !.tts_inference_mode = m, !.voice_id = v, !.tts_speed = s,
                !.tts_workflow = w, !.ref_audio = r] :
        c \in {k \in Configs : /\ k.media_workflow = WfVideo
                               /\ k.source_image_url = None
                               /\ k.frame_template = None},
        m \in {"local", "comfyui"}, v \in {None, "voice"},
        s \in {None, "speed"}, w \in {None, "ttswf"}, r \in {None, "ref"} }

\* __call__ on a frame that needs TTS, under every TTS configuration
InitTts ==
    /\ config \in TtsConfigs
    /\ frame \in {PairFrame(0), PairFrame(MaxIndex)}
    /\ progress_callback \in {None, "callback"}
    /\ entry = frame
    /\ pc = "audio"
    /\ calls = <<>>
    /\ fs = AssetFiles(frame)
    /\ events = <<>>
    /\ media_result = NoResult
    /\ error = NoError
    /\ other = <<>>

SpecTts == InitTts /\ [][Next]_vars

----------------------------------------------------------------------------
(* The call log *)

Ops == {calls[i].op : i \in DOMAIN calls}
CallsOf(op) == {i \in DOMAIN calls : calls[i].op = op}
Called(op) == CallsOf(op) # {}

\* the step an external call belongs to
StepRank(op) ==
    CASE op \in {"tts", "probe_audio"} -> 1
      [] op = "media" -> 2
      [] op \in {"download", "probe_video"} -> 3
      [] op = "compose" -> 4
      [] op \in {"overlay", "merge", "copy", "render"} -> 5

AssemblyOps == {"overlay", "merge", "copy", "render"}

\* the duration the audio step left on the frame: the probe's, else the
\* caller's
AudioDuration ==
    IF \E i \in CallsOf("probe_audio") : calls[i].ok
    THEN calls[CHOOSE i \in CallsOf("probe_audio") : calls[i].ok].ret
    ELSE entry.duration

I2VError == "ValueError: I2V workflow requires image_url"

----------------------------------------------------------------------------
(* Claims *)

\* C1: the external calls of one run occur in the order TTS, media
\* generation, download, composition, assembly: no call of a later step
\* precedes a call of an earlier step.
C1_FixedStepOrder ==
    \A i, j \in DOMAIN calls :
        i < j => StepRank(calls[i].op) <= StepRank(calls[j].op)

C1_Witness ==
    /\ Returned
    /\ {"tts", "probe_audio", "media", "download", "probe_video", "compose",
        "overlay", "merge"} \subseteq Ops

\* C2: when process returns, video_segment_path is set and names an
\* existing file.
C2_SegmentExists ==
    Returned => /\ frame.video_segment_path # NoPath
                /\ Exists(frame.video_segment_path)

C2_Witness ==
    /\ Returned
    /\ Called("copy")
    /\ frame.media_type = "video"

\* C3: video_segment_path is written only by the assembly step that
\* completes the run: in every other state, a raise included, it holds its
\* value on entry.
C3_SegmentPathOnlyOnSuccess ==
    ~Returned => frame.video_segment_path = entry.video_segment_path

C3_Witness ==
    /\ Raised
    /\ error.what = "merge"
    /\ Called("overlay")

\* C4 (as claimed): when process raises, every field of the frame holds its
\* value on entry.
C4_NoPartialCommit ==
    Raised => frame = entry

\* C4 (amended): process commits step by step and does not roll back.  When
\* it raises, video_segment_path holds its entry value, and any other field
\* differs from its entry value only through a step that ran before the
\* failure: audio_path after a TTS call that returned, duration after a
\* probe or a download that returned, media_type after a generation call
\* that returned or the no-media branch, image_path and video_path after a
\* download that returned, composed_image_path after composition completed.
C4_CommitsCompletedStepsOnly ==
    Raised =>
      /\ frame.video_segment_path = entry.video_segment_path
      /\ frame.index = entry.index
      /\ frame.image_prompt = entry.image_prompt
      /\ (frame.audio_path # entry.audio_path =>
            \E i \in CallsOf("tts") :
               calls[i].ok /\ frame.audio_path = calls[i].ret)
      /\ (frame.duration # entry.duration =>
            \/ \E i \in CallsOf("probe_audio") : calls[i].ok
            \/ \E i \in CallsOf("download") : calls[i].ok)
      /\ (frame.media_type # entry.media_type =>
            \/ \E i \in CallsOf("media") :
                  calls[i].ok /\ frame.media_type = calls[i].ret.media_type
            \/ /\ entry.image_prompt = None
               /\ entry.image_path = NoPath /\ entry.video_path = NoPath
               /\ frame.media_type = None)
      /\ (frame.image_path # entry.image_path
             \/ frame.video_path # entry.video_path =>
            \E i \in CallsOf("download") : calls[i].ok)
      /\ (frame.composed_image_path # entry.composed_image_path =>
            error.at = "segment")

C4_Witness ==
    /\ Raised
    /\ error.what = "http"
    /\ frame.audio_path # entry.audio_path
    /\ frame.media_type # entry.media_type

\* the duration of the frame's audio: what the probe returned for
\* synthesized audio, the playable duration of a pre-supplied file
RealAudioDuration ==
    IF \E i \in CallsOf("probe_audio") : calls[i].ok
    THEN AudioDuration
    ELSE ClipDuration(fs[entry.audio_path][2])

\* C5 (as claimed): a video-kind generation request for a frame with audio
\* of duration D carries D as its duration parameter, for synthesized and
\* pre-supplied audio alike.
C5_DurationThreading ==
    \A i \in CallsOf("media") :
        (<<"media_type", "video">> \in calls[i].args
            /\ frame.audio_path # NoPath)
        => <<"duration", RealAudioDuration>> \in calls[i].args

\* C5 (amended): a video-kind generation request carries as its duration
\* parameter the duration probed from the audio synthesized in step 1, or,
\* without synthesis, the duration the caller set on the frame; with
\* pre-supplied audio and no duration set on the frame the audio is not
\* probed and the request carries no duration.
C5_DurationThreadingFromFrame ==
    \A i \in CallsOf("media") :
        <<"media_type", "video">> \in calls[i].args
        => IF AudioDuration # NoDuration
           THEN <<"duration", AudioDuration>> \in calls[i].args
           ELSE \A kv \in calls[i].args : kv[1] # "duration"

C5_Witness ==
    /\ Called("tts")
    /\ \E i \in CallsOf("media") :
          /\ <<"duration", ClipDuration(1)>> \in calls[i].args
          /\ <<"workflow", WfVideo>> \in calls[i].args

\* C6: when the generator returns a video carrying its own duration D', the
\* frame's duration when process returns is D', whatever the audio-derived
\* duration D was.
C6_VideoTruthOverridesAudio ==
    (Returned /\ media_result.media_type = "video"
              /\ media_result.duration # NoDuration)
    => frame.duration = media_result.duration

C6_Witness ==
    /\ Returned
    /\ media_result.media_type = "video"
    /\ media_result.duration # NoDuration
    /\ Called("probe_audio")
    /\ AudioDuration # media_result.duration
    /\ frame.duration = media_result.duration

\* C7 (as claimed): the I2V configuration error is raised before any
\* external call of the invocation, TTS included.
C7_I2VErrorBeforeAnyCall ==
    (Raised /\ error.what = I2VError) => calls = <<>>

\* C8 (as claimed): with an I2V workflow and no source image URL, media
\* generation, download, composition and assembly are never invoked and
\* image_path, video_path and media_type keep their entry values.
C8_I2VNothingRuns ==
    (config.media_workflow = WfI2V /\ config.source_image_url = None)
    => /\ Ops \cap ({"media", "download", "compose"} \cup AssemblyOps) = {}
       /\ frame.image_path = entry.image_path
       /\ frame.video_path = entry.video_path
       /\ frame.media_type = entry.media_type

\* C8 (amended): the same, for a frame that needs generation (image_prompt
\* set); the run then ends in the media step with the configuration error,
\* or earlier.
C8_I2VNothingRunsWhenGenerating ==
    (config.media_workflow = WfI2V /\ config.source_image_url = None
        /\ entry.image_prompt # None)
    => /\ Ops \cap ({"media", "download", "compose"} \cup AssemblyOps) = {}
       /\ frame.image_path = entry.image_path
       /\ frame.video_path = entry.video_path
       /\ frame.media_type = entry.media_type
       /\ pc \in {"audio", "audio_probe", "media", "raised"}
       /\ (Raised /\ error.at = "media" =>
              error.what \in {I2VError, "callback"})

C8_Witness ==
    /\ Raised
    /\ error.what = I2VError
    /\ config.media_workflow = WfI2V
    /\ entry.image_path # NoPath
    /\ entry.media_type = "video"

\* the segment was rendered from the entry image, directly or through the
\* composed image built on it
RenderedFromEntryImage ==
    LET last == calls[Len(calls)]
    IN  /\ last.op = "render"
        /\ IF config.frame_template = None
           THEN last.args.image = entry.image_path
           ELSE /\ last.args.image = frame.composed_image_path
                /\ \E j \in CallsOf("compose") :
                      /\ calls[j].ok
                      /\ calls[j].ret = frame.composed_image_path
                      /\ calls[j].args.image = entry.image_path

\* C9 (as claimed): a frame with image_path pre-set and no image_prompt
\* never invokes generation or download, composition and assembly both run
\* (only an external capability or the callback can fail), and a run that
\* returns has rendered the segment from that image, whatever media_type
\* was on entry.
C9_SkipOnExisting ==
    (entry.image_path # NoPath /\ entry.image_prompt = None)
    => /\ ~Called("media") /\ ~Called("download")
       /\ (Returned => RenderedFromEntryImage)
       /\ (Raised => /\ error.at \in {"audio", "audio_probe", "compose",
                                      "segment"}
                     /\ error.what \in {"tts", "getsize", "compose",
                                        "render", "callback"})

\* C9 (amended): the same when media_type is unset or "image" on entry
\* (pre-set to "video", assembly takes the video branch instead); the run
\* then fails only through an external capability or the callback, never
\* in the media step or on a configuration error.
C9_SkipOnExistingImageKind ==
    (entry.image_path # NoPath /\ entry.image_prompt = None
        /\ entry.media_type \in {None, "image"})
    => /\ ~Called("media") /\ ~Called("download")
       /\ (Returned => RenderedFromEntryImage)
       /\ (Raised => /\ error.at \in {"audio", "audio_probe", "compose",
                                      "segment"}
                     /\ error.what \in {"tts", "getsize", "compose",
                                        "render", "callback"})

C9_Witness ==
    /\ Returned
    /\ entry.image_path # NoPath /\ entry.image_prompt = None
    /\ entry.media_type = None
    /\ config.frame_template # None
    /\ RenderedFromEntryImage

\* C10 (as claimed): with image_path or video_path pre-supplied, media
\* generation is not invoked, image_prompt set or not, and the pre-supplied
\* path is still the frame's when process returns.
C10_NoGenerationOnExistingMedia ==
    (entry.image_path # NoPath \/ entry.video_path # NoPath)
    => /\ ~Called("media")
       /\ (Returned =>
             /\ (entry.image_path # NoPath =>
                    frame.image_path = entry.image_path)
             /\ (entry.video_path # NoPath =>
                    frame.video_path = entry.video_path))

\* steps 3 and 4 run on frame f over the files: the composition and
\* assembly calls with their arguments, and the outcome
ComposeAndAssemble(f, c, files, okc, ok1, ok2) ==
    LET r == Composed(f, c, files, okc)
    IN  IF r.error # None
        THEN [calls |-> r.calls, error |-> r.error, segment_path |-> NoPath]
        ELSE LET s == SegmentResult(r.frame, c, r.fs, ok1, ok2)
             IN  [calls |-> r.calls \o s.calls, error |-> s.error,
                  segment_path |-> s.segment_path]

\* the frame a caller pre-supplies the generated medium on: no prompt, the
\* duration the audio step left, media_type m
PreSupplied(m) ==
    [frame EXCEPT !.image_prompt = None, !.duration = AudioDuration,
                  !.media_type = m]

\* the generation step of this run has just produced the frame's only medium
JustGenerated ==
    /\ pc = "compose"
    /\ \E i \in CallsOf("download") : calls[i].ok
    /\ entry.image_path = NoPath /\ entry.video_path = NoPath

SameTail(m) ==
    \A okc \in BOOLEAN, ok1 \in BOOLEAN, ok2 \in BOOLEAN :
        ComposeAndAssemble(PreSupplied(m), config, fs, okc, ok1, ok2)
            = ComposeAndAssemble(frame, config, fs, okc, ok1, ok2)

\* C11 (as claimed): a frame on which only the media path is pre-supplied
\* (media_type left unset, or set to the kind) goes through the same
\* composition and assembly calls, with the same arguments and the same
\* outcome, as the frame whose generation step produced that path.
C11_PreSuppliedAsGenerated ==
    JustGenerated => \A m \in {None, frame.media_type} : SameTail(m)

\* C11 (amended): the same holds for a pre-supplied video_path when
\* media_type is pre-set to "video", and for a pre-supplied image_path
\* with media_type unset or "image".
C11_PreSuppliedWithKindAsGenerated ==
    JustGenerated =>
        /\ SameTail(frame.media_type)
        /\ (frame.media_type = "image" => SameTail(None))

C11_Witness ==
    /\ JustGenerated
    /\ frame.media_type = "video"
    /\ frame.duration # AudioDuration
    /\ frame.audio_path # NoPath
    /\ config.frame_template # None

\* C12 (as claimed): for a video-kind frame with a template configured, the
\* overlay-composited temporary file does not exist once process has
\* exited, by return or by raise.
C12_TempOverlayRemoved ==
    ((Returned \/ Raised) /\ frame.media_type = "video"
        /\ config.frame_template # None)
    => TempOverlayPath(config.task_id, frame.index) \notin DOMAIN fs

\* the external capabilities, and the error each one raises when it fails
ExternalOps ==
    {"tts", "media", "download", "compose", "overlay", "merge", "copy",
     "render"}

ErrorOf(op) == IF op = "download" THEN "http" ELSE op

\* C13: when an external capability fails, process raises that same error,
\* the failed capability is not invoked a second time, and no further call
\* is made: the failed call is the last of the log and the only one of its
\* capability.
C13_ExternalFailurePropagates ==
    \A i \in DOMAIN calls :
        (calls[i].op \in ExternalOps /\ ~calls[i].ok)
        => /\ Raised
           /\ error.what = ErrorOf(calls[i].op)
           /\ i = Len(calls)
           /\ Cardinality(CallsOf(calls[i].op)) = 1

C13_Witness ==
    /\ Raised
    /\ error = [at |-> "segment", what |-> "merge"]
    /\ Called("tts") /\ Called("media") /\ Called("download")
    /\ Called("compose") /\ Called("overlay")
    /\ ~calls[Len(calls)].ok /\ calls[Len(calls)].op = "merge"

NoImageError == "ValueError: No image available"

\* the frame brings no prompt and no media, and no template is configured
NoMediaNoTemplate ==
    /\ entry.image_prompt = None
    /\ entry.image_path = NoPath /\ entry.video_path = NoPath
    /\ config.frame_template = None

\* C14: a frame with no image_prompt and no pre-supplied media, under a
\* config with no template, never returns: unless TTS, the audio probe or
\* the callback fails first, process raises "No image available" in the
\* assembly step, after the TTS call when TTS is configured, with
\* media_type unset; the composer, the generation capability and the video
\* service are never invoked.
C14_NoMediaNoTemplateRaises ==
    NoMediaNoTemplate
    => /\ ~Returned
       /\ Ops \subseteq {"tts", "probe_audio"}
       /\ (pc \in {"compose", "segment"} => frame.media_type = None)
       /\ (Raised =>
             \/ error.what \in {"tts", "getsize", "callback"}
             \/ /\ error = [at |-> "segment", what |-> NoImageError]
                /\ frame.media_type = None
                /\ (entry.audio_path = NoPath
                        /\ config.tts_inference_mode # None
                     => \E i \in CallsOf("tts") : calls[i].ok))

C14_Witness ==
    /\ NoMediaNoTemplate
    /\ Raised
    /\ error = [at |-> "segment", what |-> NoImageError]
    /\ entry.media_type = "video"
    /\ Called("tts")

\* what the frame's video file held before assembly: the download, or the
\* caller's asset
SourceVideoContent ==
    IF frame.video_path = entry.video_path
    THEN <<"asset", "video">>
    ELSE <<"download", MediaUrl>>

\* C15: for a video-kind frame with no template and no narration audio,
\* neither overlay nor mux is invoked; the segment is a plain copy of the
\* source video, the source video file is left as it was, and
\* video_segment_path is the allocated segment path.
C15_PlainCopy ==
    (Returned /\ frame.media_type = "video" /\ config.frame_template = None
        /\ frame.audio_path = NoPath)
    => /\ ~Called("overlay") /\ ~Called("merge") /\ ~Called("render")
       /\ Cardinality(CallsOf("copy")) = 1
       /\ frame.video_segment_path
            = get_task_frame_path(config.task_id, frame.index, "segment")
       /\ frame.video_path \in DOMAIN fs
       /\ frame.video_segment_path \in DOMAIN fs
       /\ fs[frame.video_path] = SourceVideoContent
       /\ fs[frame.video_segment_path] = SourceVideoContent

C15_Witness ==
    /\ Returned /\ frame.media_type = "video"
    /\ config.frame_template = None /\ frame.audio_path = NoPath
    /\ Called("download") /\ Called("copy")
    /\ fs[frame.video_segment_path] = fs[frame.video_path]

VideoWithPath == frame.media_type = "video" /\ frame.video_path # NoPath
ImageWithPath == frame.media_type = "image" /\ frame.image_path # NoPath
NoMediaAtAll ==
    /\ frame.media_type = None
    /\ frame.image_path = NoPath /\ frame.video_path = NoPath

\* C16 (as claimed): after a successful run video_segment_path is set and
\* the frame is a video with video_path set, an image with image_path set,
\* or has no media at all; no successful run ends in any other combination.
C16_MediaTypeMatchesPath ==
    Returned
    => /\ frame.video_segment_path # NoPath
       /\ (VideoWithPath \/ ImageWithPath \/ NoMediaAtAll)

\* media the caller pre-supplied without the matching kind, on a frame that
\* generates nothing: media_type stays as the caller left it
PreSuppliedUnmatched ==
    /\ entry.image_prompt = None
    /\ entry.image_path # NoPath \/ entry.video_path # NoPath
    /\ frame.media_type = entry.media_type
    /\ frame.media_type \in {None, "image"}
    /\ frame.image_path = entry.image_path
    /\ frame.video_path = entry.video_path

\* C16 (amended): after a successful run video_segment_path is set and the
\* frame is a video with video_path set, an image with image_path set, has
\* no media at all, or carries pre-supplied media whose media_type the
\* caller left unset or "image" (the segment is then rendered from
\* image_path or from the composed image); media_type "video" with
\* video_path unset never ends a successful run.
C16_MediaTypeMatchesPathUnlessPreSupplied ==
    Returned
    => /\ frame.video_segment_path # NoPath
       /\ \/ VideoWithPath
          \/ ImageWithPath
          \/ NoMediaAtAll
          \/ PreSuppliedUnmatched /\ ImageToUse(frame) # NoPath
       /\ ~(frame.media_type = "video" /\ frame.video_path = NoPath)

C16_Witness ==
    /\ Returned
    /\ PreSuppliedUnmatched
    /\ frame.media_type = None /\ frame.image_path # NoPath
    /\ Called("render")

\* the step number and action tag of each reported checkpoint, in order
Checkpoints == [i \in DOMAIN events |-> <<events[i].step, events[i].action>>]

\* C17 (as claimed): with a callback supplied, every successful run reports
\* exactly the four checkpoints 1 "audio", 2 "media", 3 "compose",
\* 4 "video" in that order, also when the audio or media step is skipped.
C17_FourCheckpoints ==
    (Returned /\ progress_callback # None)
    => Checkpoints = << <<1, "audio">>, <<2, "media">>, <<3, "compose">>,
                        <<4, "video">> >>

\* the checkpoints of a run on this frame and config
ExpectedCheckpoints ==
    (IF entry.audio_path = NoPath /\ config.tts_inference_mode # None
     THEN << <<1, "audio">> >> ELSE <<>>)
    \o (IF entry.image_prompt # None THEN << <<2, "media">> >> ELSE <<>>)
    \o << <<3, "compose">>, <<4, "video">> >>

\* C17 (amended): with a callback supplied, every successful run reports
\* checkpoint 1 "audio" exactly when TTS is invoked, checkpoint 2 "media"
\* exactly when media is generated, and checkpoints 3 "compose" and
\* 4 "video" always, in that order.
C17_CheckpointsOfStepsRun ==
    (Returned /\ progress_callback # None)
    => Checkpoints = ExpectedCheckpoints

C17_Witness ==
    /\ Returned /\ progress_callback # None
    /\ Checkpoints = << <<3, "compose">>, <<4, "video">> >>
    /\ entry.audio_path # NoPath /\ entry.image_path # NoPath

\* the frame has media, generated or pre-supplied
WithMedia ==
    \/ entry.image_prompt # None
    \/ entry.image_path # NoPath \/ entry.video_path # NoPath

\* the progress fraction, in percent, of the checkpoint of a step
ExpectedProgress(step) ==
    CASE step = 1 -> 0
      [] step = 2 -> 25
      [] step = 3 -> IF WithMedia THEN 50 ELSE 33
      [] step = 4 -> IF WithMedia THEN 75 ELSE 67

\* C18: within one run the reported events have progress fractions within
\* [0,1] that never decrease, step numbers within 1..4 that strictly
\* increase, and frame_current = frame.index + 1; the fractions are 0, 0.25,
\* 0.50, 0.75 with media and 0.33, 0.67 for steps 3 and 4 without.
C18_ProgressMonotone ==
    /\ \A i \in DOMAIN events :
          /\ events[i].progress \in 0..100
          /\ events[i].step \in 1..4
          /\ events[i].progress = ExpectedProgress(events[i].step)
          /\ events[i].frame_current = entry.index + 1
    /\ \A i \in DOMAIN events, j \in DOMAIN events :
          i < j => /\ events[i].progress <= events[j].progress
                   /\ events[i].step < events[j].step

C18_Witness ==
    /\ Returned
    /\ Len(events) = 3
    /\ ~WithMedia
    /\ entry.index = MaxIndex
    /\ events[1].progress = 0 /\ events[3].progress = 67

\* the two invocations of a pair, the running one and the suspended one
Both == {Invocation} \cup {other[i] : i \in DOMAIN other}
Terminated(inv) == inv.pc \in {"returned", "raised"}

\* the same call with the same outcome
SameCall(x, y) ==
    /\ x.op = y.op
    /\ x.args = y.args
    /\ x.ok = y.ok
    /\ (x.ok => x.ret = y.ret)

\* the same frame under the same config, once with a callback and once
\* without, and no callback has raised
Twins ==
    /\ other # <<>>
    /\ other[1].entry = entry
    /\ other[1].config = config
    /\ progress_callback # other[1].progress_callback
    /\ \A inv \in Both : inv.error.what # "callback"

\* C19: the callback has no effect on control flow: of two runs on the same
\* frame and config, one with a callback that returns and one without, as
\* long as the external calls made so far had the same outcomes the next
\* call is the same call with the same arguments, and when every call had
\* the same outcome the two runs end with the same call sequence, the same
\* frame fields and the same outcome.
C19_CallbackNoControlFlow ==
    Twins =>
        LET a == calls
            b == other[1].calls
            n == IF Len(a) < Len(b) THEN Len(a) ELSE Len(b)
        IN  /\ \A i \in 1..n :
                  (\A j \in 1..(i - 1) : SameCall(a[j], b[j]))
                  => a[i].op = b[i].op /\ a[i].args = b[i].args
            /\ ((\A inv \in Both : Terminated(inv))
                    /\ \A j \in 1..n : SameCall(a[j], b[j]))
               => /\ Len(a) = Len(b)
                  /\ frame = other[1].frame
                  /\ pc = other[1].pc
                  /\ error = other[1].error

C19_Witness ==
    /\ Twins
    /\ Returned /\ other[1].pc = "returned"
    /\ Len(calls) = Len(other[1].calls)
    /\ \A j \in DOMAIN calls : SameCall(calls[j], other[1].calls[j])
    /\ Called("tts") /\ Called("media") /\ Called("compose")
    /\ \E inv \in Both : Len(inv.events) = 4
    /\ \E inv \in Both : inv.events = <<>>

\* the path a call writes, if it writes one
OutputOf(call) ==
    CASE call.op = "tts" ->
            {kv[2] : kv \in {x \in call.args : x[1] = "output_path"}}
      [] call.op = "download" -> {call.args[2]}
      [] call.op = "compose" -> {call.args.output_path}
      [] call.op \in {"overlay", "merge", "render"} -> {call.args.output}
      [] call.op = "copy" -> {call.args.dst}
      [] OTHER -> {}

\* the paths the calls of a log write or delete (the overlay's output is
\* the temp file assembly deletes)
WritePaths(cs) == UNION {OutputOf(cs[i]) : i \in DOMAIN cs}

\* the paths an invocation writes, deletes or reads
Touched(inv) ==
    WritePaths(inv.calls)
    \cup ({inv.frame.audio_path, inv.frame.image_path, inv.frame.video_path,
           inv.frame.composed_image_path, inv.frame.video_segment_path}
          \ {NoPath})

\* the files whose presence or content a step changes
ChangedFiles ==
    {p \in DOMAIN fs \cup DOMAIN fs' :
        p \notin DOMAIN fs \/ p \notin DOMAIN fs' \/ fs[p] # fs'[p]}

DistinctIndexes == other # <<>> /\ other[1].frame.index # frame.index

\* the audio file an invocation probed is still the clip it probed, and its
\* composed image is still the one built on its own medium
OwnFilesIntact(inv) ==
    /\ \A i \in DOMAIN inv.calls :
          (inv.calls[i].op = "probe_audio" /\ inv.calls[i].ok)
          => /\ inv.frame.audio_path \in DOMAIN fs
             /\ inv.calls[i].ret \in AudioDurations(inv.frame.audio_path)
    /\ (inv.pc = "segment" /\ inv.frame.composed_image_path # NoPath)
       => /\ inv.frame.composed_image_path \in DOMAIN fs
          /\ fs[inv.frame.composed_image_path]
               = <<"composed", ComposeMediaPath(inv.frame)>>

\* C20: of two interleaved invocations on frames with distinct indexes under
\* one task id, neither writes or deletes a path the other writes, deletes
\* or reads; every step changes only files its own invocation writes, so
\* each invocation finds its files as it leaves them when run alone.
C20_DisjointPaths ==
    /\ [](DistinctIndexes =>
            /\ WritePaths(calls) \cap Touched(other[1]) = {}
            /\ WritePaths(other[1].calls) \cap Touched(Invocation) = {}
            /\ \A inv \in Both : OwnFilesIntact(inv))
    /\ [][DistinctIndexes => ChangedFiles \subseteq WritePaths(calls')]_vars

C20_Witness ==
    /\ DistinctIndexes
    /\ \A inv \in Both :
          /\ inv.pc = "returned"
          /\ inv.frame.media_type = "video"
          /\ inv.frame.video_segment_path \in DOMAIN fs
          /\ \E i \in DOMAIN inv.calls : inv.calls[i].op = "overlay"
          /\ \E i \in DOMAIN inv.calls : inv.calls[i].op = "merge"

\* C21 (as claimed): the duration prober never raises: every audio probe
\* and every video probe returns a duration, for a missing file too, and
\* process never ends in a probe.
C21_ProberNeverRaises ==
    /\ \A i \in DOMAIN calls :
          calls[i].op \in {"probe_audio", "probe_video"} => calls[i].ok
    /\ error.at \notin {"audio_probe", "video_probe"}

\* C22: when the HTTP GET of the generated media fails, the download
\* raises, nothing is written to the destination path, image_path and
\* video_path stay as they were on entry, and process raises without any
\* composition or assembly call.
C22_DownloadFailureIsFatal ==
    \A i \in DOMAIN calls :
        (calls[i].op = "download" /\ ~calls[i].ok)
        => /\ Raised
           /\ error = [at |-> "download", what |-> "http"]
           /\ calls[i].args[2] \notin DOMAIN fs
           /\ frame.image_path = entry.image_path
           /\ frame.video_path = entry.video_path
           /\ Ops \cap ({"compose"} \cup AssemblyOps) = {}

C22_Witness ==
    /\ Raised
    /\ error = [at |-> "download", what |-> "http"]
    /\ Called("tts") /\ Called("media")
    /\ calls[Len(calls)].op = "download" /\ ~calls[Len(calls)].ok
    /\ frame.media_type = "video" /\ frame.video_path = NoPath

\* audio_path is unset on entry and the config has a TTS mode
TtsWanted == entry.audio_path = NoPath /\ config.tts_inference_mode # None

\* C23: TTS is invoked (once) exactly when audio_path is unset on entry and
\* a TTS mode is configured, unless the callback raises at the first
\* checkpoint; when it returns, audio_path is the returned path and, once
\* the audio step is over, duration is the probed duration of that file.
\* Otherwise TTS is never invoked and audio_path stays as it was.
C23_TtsGate ==
    /\ Called("tts") => TtsWanted
    /\ (TtsWanted /\ pc # "audio"
            /\ error # [at |-> "audio", what |-> "callback"])
       => Cardinality(CallsOf("tts")) = 1
    /\ ~TtsWanted => frame.audio_path = entry.audio_path
    /\ \A i \in CallsOf("tts") :
          calls[i].ok => frame.audio_path = calls[i].ret
    /\ (pc = "media" /\ Called("tts"))
       => \E i \in CallsOf("probe_audio") :
             /\ calls[i].ok
             /\ calls[i].args = frame.audio_path
             /\ calls[i].ret \in AudioDurations(frame.audio_path)
             /\ frame.duration = calls[i].ret

C23_Witness ==
    /\ pc = "media"
    /\ Called("tts")
    /\ entry.duration = NoDuration
    /\ frame.audio_path = get_task_frame_path(config.task_id, frame.index,
                                              "audio")
    /\ frame.duration = ClipDuration(MaxDur)

\* the configured workflow identifier, lower-cased, holds the marker
HasMarker(marker) == Contains(marker, Lower(config.media_workflow))

\* C24: the kind requested from the generator is "video" exactly when the
\* workflow identifier, compared case-insensitively, contains "video_" or
\* "i2v_", and "image" otherwise (also when the workflow is unset); image_url
\* is passed exactly when the identifier contains "i2v_" and a source image
\* URL is configured, so every request with image_url asks for a video.
C24_RequestedKind ==
    \A i \in CallsOf("media") :
        LET args == calls[i].args
        IN  /\ <<"media_type", "video">> \in args
                <=> (HasMarker(VideoMarker) \/ HasMarker(I2VMarker))
            /\ <<"media_type", "image">> \in args
                <=> ~(HasMarker(VideoMarker) \/ HasMarker(I2VMarker))
            /\ (\E kv \in args : kv[1] = "image_url")
                <=> (HasMarker(I2VMarker) /\ config.source_image_url # None)
            /\ \A kv \in args :
                  kv[1] = "image_url"
                  => /\ kv[2] = config.source_image_url
                     /\ <<"media_type", "video">> \in args

C24_Witness ==
    /\ config.media_workflow = WfI2V
    /\ \E i \in CallsOf("media") :
          /\ <<"media_type", "video">> \in calls[i].args
          /\ <<"image_url", config.source_image_url>> \in calls[i].args

\* C25: after a successful generation step (generator and download both
\* returned), media_type is the kind of the generator's result, whatever
\* kind was requested; the downloaded path is in image_path for an image
\* and in video_path for a video, and the path of the other kind is as it
\* was on entry.
C25_StoredByResultKind ==
    \A i \in CallsOf("media"), j \in CallsOf("download") :
        (calls[i].ok /\ calls[j].ok)
        => LET r == calls[i].ret
               local_path == calls[j].ret
           IN  /\ frame.media_type = r.media_type
               /\ r.media_type = "image"
                  => /\ frame.image_path = local_path
                     /\ frame.video_path = entry.video_path
               /\ r.media_type = "video"
                  => /\ frame.video_path = local_path
                     /\ frame.image_path = entry.image_path

C25_Witness ==
    /\ Returned
    /\ config.media_workflow = WfVideo
    /\ \E i \in CallsOf("media") :
          /\ <<"media_type", "video">> \in calls[i].args
          /\ calls[i].ok
    /\ frame.media_type = "image"
    /\ frame.image_path = get_task_frame_path(config.task_id, frame.index,
                                              "image")
    /\ frame.video_path = entry.video_path
    /\ entry.video_path # NoPath

\* the composition step is over
AfterCompose ==
    pc \in {"segment", "returned"} \/ (Raised /\ error.at = "segment")

\* C26: with no template the composer is never invoked; after the
\* composition step composed_image_path is the raw image_path for an image
\* frame with image_path set and unset for every other frame, and the step
\* leaves image_path, video_path, media_type, audio_path and duration as
\* they were.
C26_NoTemplatePassThrough ==
    /\ [](config.frame_template = None
          => /\ ~Called("compose")
             /\ AfterCompose
                => frame.composed_image_path
                     = IF frame.media_type = "image"
                          /\ frame.image_path # NoPath
                       THEN frame.image_path
                       ELSE NoPath)
    /\ [][(pc = "compose" /\ pc' = "segment"
              /\ config.frame_template = None)
          => /\ frame'.image_path = frame.image_path
             /\ frame'.video_path = frame.video_path
             /\ frame'.media_type = frame.media_type
             /\ frame'.audio_path = frame.audio_path
             /\ frame'.duration = frame.duration
             /\ fs' = fs]_vars

C26_Witness ==
    /\ pc = "segment"
    /\ config.frame_template = None
    /\ frame.media_type = "image"
    /\ frame.image_path # NoPath
    /\ frame.composed_image_path = frame.image_path

\* step 3 was reached: its checkpoint is behind
ReachedCompose ==
    AfterCompose \/ (Raised /\ error = [at |-> "compose", what |-> "compose"])

AssemblyRan ==
    Returned \/ (Raised /\ error.at = "segment" /\ error.what # "callback")

\* the video an assembly call was handed
VideoHanded(call) ==
    IF call.op = "merge" THEN call.args.video ELSE call.args.src

\* C28: in the video branch of assembly the overlay is invoked (once)
\* exactly when composed_image_path is set, on video_path and the composed
\* image, with scale mode "contain" and the temp overlay path as output;
\* the video handed to the mux or copy is that output when the overlay ran
\* and the raw video_path otherwise.
C28_OverlayIffComposed ==
    /\ Called("overlay") => AssemblyRan /\ frame.media_type = "video"
    /\ (AssemblyRan /\ frame.media_type = "video")
       => /\ Cardinality(CallsOf("overlay"))
               = (IF frame.composed_image_path # NoPath THEN 1 ELSE 0)
          /\ \A i \in CallsOf("overlay") :
                calls[i].args
                  = [ video |-> frame.video_path,
                      overlay_image |-> frame.composed_image_path,
                      output |-> TempOverlayPath(config.task_id, frame.index),
                      scale_mode |-> "contain" ]
          /\ \A i \in CallsOf("merge") \cup CallsOf("copy") :
                VideoHanded(calls[i])
                  = (IF Called("overlay")
                     THEN TempOverlayPath(config.task_id, frame.index)
                     ELSE frame.video_path)

C28_Witness ==
    /\ Returned /\ frame.media_type = "video"
    /\ Called("overlay")
    /\ \E i \in CallsOf("merge") :
          calls[i].args.video
            = TempOverlayPath(config.task_id, frame.index)

\* the video branch got past its video half: the overlay, if any, returned
\* and there is a video to use
AudioHalfReached ==
    /\ AssemblyRan /\ frame.media_type = "video"
    /\ error.what \notin {"overlay", "ValueError: No video available"}

SegmentPath == get_task_frame_path(config.task_id, frame.index, "segment")

\* C29: in the video branch of assembly exactly one of mux and copy is
\* performed once the video to use is there: with audio_path set, the mux,
\* with replace_audio true and audio volume 1.0, and no copy; with
\* audio_path unset, the copy to the segment path, and no mux.
C29_MuxOrCopy ==
    /\ (Called("merge") \/ Called("copy")) => AudioHalfReached
    /\ AudioHalfReached
       => IF frame.audio_path # NoPath
          THEN /\ ~Called("copy")
               /\ Cardinality(CallsOf("merge")) = 1
               /\ \A i \in CallsOf("merge") :
                     /\ calls[i].args.audio = frame.audio_path
                     /\ calls[i].args.output = SegmentPath
                     /\ calls[i].args.replace_audio = TRUE
                     /\ calls[i].args.audio_volume = 1
          ELSE /\ ~Called("merge")
               /\ Cardinality(CallsOf("copy")) = 1
               /\ \A i \in CallsOf("copy") : calls[i].args.dst = SegmentPath

C29_Witness ==
    /\ Returned /\ frame.media_type = "video"
    /\ frame.audio_path # NoPath
    /\ Called("merge") /\ ~Called("copy")
    /\ frame.video_segment_path = SegmentPath

\* C30: in the image (or unset-kind) branch of assembly the visual source
\* is composed_image_path when set and image_path otherwise; with both
\* unset a configuration error is raised before any video-service
\* operation; with narration audio, render-from-image is invoked with that
\* audio, at the configured fps, with no explicit duration.
C30_ImageBranch ==
    (AssemblyRan /\ frame.media_type \in {"image", None})
    => /\ Ops \cap {"overlay", "merge", "copy"} = {}
       /\ IF frame.composed_image_path = NoPath /\ frame.image_path = NoPath
          THEN /\ Raised
               /\ error = [at |-> "segment", what |-> NoImageError]
               /\ ~Called("render")
          ELSE /\ Cardinality(CallsOf("render")) = 1
               /\ \A i \in CallsOf("render") :
                     /\ calls[i].args.image
                          = (IF frame.composed_image_path # NoPath
                             THEN frame.composed_image_path
                             ELSE frame.image_path)
                     /\ calls[i].args.output = SegmentPath
                     /\ calls[i].args.fps = config.video_fps
                     /\ frame.audio_path # NoPath
                        => /\ calls[i].args.audio = frame.audio_path
                           /\ calls[i].args.duration = NoDuration

C30_Witness ==
    /\ Returned /\ frame.media_type = "image"
    /\ frame.audio_path # NoPath
    /\ frame.image_path # NoPath
    /\ frame.composed_image_path \notin {NoPath, frame.image_path}
    /\ \E i \in CallsOf("render") :
          /\ calls[i].args.image = frame.composed_image_path
          /\ calls[i].args.audio = frame.audio_path

\* C31: in the image branch with no narration audio, render-from-image is
\* invoked with no audio and with the frame's duration when it is set, and
\* with 5 seconds when it is unset; frame.duration is after assembly what
\* it was before (the caller's value: neither audio nor a video set it).
C31_SilentRender ==
    (AssemblyRan /\ frame.media_type \in {"image", None}
                 /\ frame.audio_path = NoPath)
    => /\ frame.duration = entry.duration
       /\ \A i \in CallsOf("render") :
             /\ calls[i].args.audio = NoPath
             /\ calls[i].args.duration
                  = (IF entry.duration # NoDuration THEN entry.duration
                     ELSE DefaultSilentSeconds * TicksPerSecond)

C31_Witness ==
    /\ Returned /\ frame.media_type \in {"image", None}
    /\ frame.audio_path = NoPath
    /\ frame.duration = PresetDuration
    /\ \E i \in CallsOf("render") :
          /\ calls[i].args.audio = NoPath
          /\ calls[i].args.duration = PresetDuration

\* the generator returned a result that is neither an image nor a video
UnknownKindReturned ==
    \E i \in CallsOf("media") :
        calls[i].ok /\ calls[i].ret.media_type \notin {"image", "video"}

\* C32: when the generator returns a result whose kind is neither image nor
\* video, process raises a fatal error at the media step: nothing is
\* downloaded, image_path and video_path keep their values, and neither
\* composition nor assembly runs.
C32_UnknownKindIsFatal ==
    UnknownKindReturned
    => /\ Raised
       /\ error = [at |-> "media", what |-> "ValueError: Unknown media type"]
       /\ ~Called("download")
       /\ frame.image_path = entry.image_path
       /\ frame.video_path = entry.video_path
       /\ Ops \cap ({"compose"} \cup AssemblyOps) = {}
       /\ frame.composed_image_path = NoPath
       /\ frame.video_segment_path = NoPath

C32_Witness ==
    /\ UnknownKindReturned
    /\ Raised
    /\ frame.media_type = "other"
    /\ config.frame_template # None

\* the values the call's keyword arguments give to a key
Keyword(args, key) == {kv[2] : kv \in {x \in args : x[1] = key}}

\* the set holding a configured value, empty when it is not configured
Configured(value) == IF value # None THEN {value} ELSE {}

\* C33: the TTS call carries the narration text, the mode, the 1-based frame
\* index and the output path of (task id, frame index, "audio"); voice and
\* speed when configured; and the TTS workflow and the reference audio when
\* configured and the mode is not "local", never in "local" mode.
C33_TtsParamsByMode ==
    \A i \in CallsOf("tts") :
       LET args == calls[i].args
           remote == config.tts_inference_mode # "local"
       IN  /\ {kv[1] : kv \in args}
                \subseteq {"text", "inference_mode", "index", "output_path",
                           "voice", "speed", "workflow", "ref_audio"}
           /\ Keyword(args, "text") = {entry.narration}
           /\ Keyword(args, "inference_mode") = {config.tts_inference_mode}
           /\ Keyword(args, "index") = {entry.index + 1}
           /\ Keyword(args, "output_path")
                = {get_task_frame_path(config.task_id, entry.index, "audio")}
           /\ Keyword(args, "voice") = Configured(config.voice_id)
           /\ Keyword(args, "speed") = Configured(config.tts_speed)
           /\ Keyword(args, "workflow")
                = (IF remote THEN Configured(config.tts_workflow) ELSE {})
           /\ Keyword(args, "ref_audio")
                = (IF remote THEN Configured(config.ref_audio) ELSE {})

C33_Witness ==
    /\ Called("tts")
    /\ config.tts_inference_mode = "local"
    /\ config.tts_workflow # None /\ config.ref_audio # None
    /\ config.voice_id = None /\ config.tts_speed # None
    /\ \A i \in CallsOf("tts") :
          /\ Keyword(calls[i].args, "workflow") = {}
          /\ Keyword(calls[i].args, "speed") = {config.tts_speed}

\* the rank (as StepRank) of the operations of the step begun at a checkpoint
CheckpointRank(at) ==
    CASE at = "audio" -> 1
      [] at = "media" -> 2
      [] at = "compose" -> 4
      [] at = "segment" -> 5

\* C34: when the progress callback raises at a checkpoint, the exception
\* leaves process unchanged, the step the checkpoint announces and every
\* later step make no call and assign no field, and video_segment_path is
\* not assigned.
C34_CallbackErrorPropagates ==
    error.what = "callback"
    => /\ Raised
       /\ progress_callback # None
       /\ error.at \in {"audio", "media", "compose", "segment"}
       /\ events[Len(events)].step
            = (CASE error.at = "audio" -> 1 [] error.at = "media" -> 2
                 [] error.at = "compose" -> 3 [] error.at = "segment" -> 4)
       /\ \A i \in DOMAIN calls :
             StepRank(calls[i].op) < CheckpointRank(error.at)
       /\ (error.at = "audio" =>
             frame.audio_path = entry.audio_path
             /\ frame.duration = entry.duration)
       /\ (error.at \in {"audio", "media"} =>
             /\ frame.media_type = entry.media_type
             /\ frame.image_path = entry.image_path
             /\ frame.video_path = entry.video_path)
       /\ (error.at # "segment" => frame.composed_image_path = NoPath)
       /\ frame.video_segment_path = NoPath

C34_Witness ==
    /\ Raised
    /\ error = [at |-> "compose", what |-> "callback"]
    /\ Called("tts") /\ Called("download")
    /\ ~Called("compose")
    /\ config.frame_template # None

\* C35: when audio_path is pre-supplied, step 1 neither synthesises nor
\* probes and leaves frame.duration as the caller set it; a generation
\* request of video kind for such a frame carries a duration parameter
\* exactly when the caller had set a non-zero frame.duration, and then that
\* value.
C35_PreSuppliedAudioDuration ==
    entry.audio_path # NoPath
    => /\ ~Called("tts") /\ ~Called("probe_audio")
       /\ frame.audio_path = entry.audio_path
       /\ ((\A i \in CallsOf("download") : ~calls[i].ok)
            => frame.duration = entry.duration)
       /\ \A i \in CallsOf("media") :
             <<"media_type", "video">> \in calls[i].args
             => Keyword(calls[i].args, "duration")
                  = (IF entry.duration # NoDuration THEN {entry.duration}
                     ELSE {})

C35_Witness ==
    /\ entry.audio_path # NoPath
    /\ entry.duration = NoDuration
    /\ config.tts_inference_mode # None
    /\ \E i \in CallsOf("media") :
          /\ <<"media_type", "video">> \in calls[i].args
          /\ Keyword(calls[i].args, "duration") = {}

C35_WitnessPreset ==
    /\ entry.audio_path # NoPath
    /\ entry.duration = PresetDuration
    /\ \E i \in CallsOf("media") :
          /\ <<"media_type", "video">> \in calls[i].args
          /\ Keyword(calls[i].args, "duration") = {PresetDuration}

\* media_type "image" comes with an image_path, "video" with a video_path
MediaFieldsConsistent(f) ==
    /\ (f.media_type = "image" => f.image_path # NoPath)
    /\ (f.media_type = "video" => f.video_path # NoPath)

\* C36 (as claimed): at every exit of process, by return or by raise, a
\* frame that entered with consistent media fields is still consistent;
\* in particular after a generation call that returned and a download that
\* failed.
C36_ConsistentAtExit ==
    ((Returned \/ Raised) /\ MediaFieldsConsistent(entry))
    => MediaFieldsConsistent(frame)

\* C37 (as claimed): for a frame of media_type "video" whose video_path is
\* unset, assembly raises a configuration error before any video-service
\* operation (overlay, mux or copy) is invoked, with a composed overlay and
\* without one.
C37_NoVideoRaisesBeforeService ==
    (AssemblyRan /\ frame.media_type = "video" /\ frame.video_path = NoPath)
    => /\ Raised
       /\ error = [at |-> "segment",
                   what |-> "ValueError: No video available"]
       /\ Ops \cap {"overlay", "merge", "copy"} = {}

\* the operations that produce the segment
SegmentOps == {"merge", "copy", "render"}

\* C38: within one process call TTS, media generation, download, composer
\* and overlay are each invoked at most once, no segment-producing operation
\* (mux, copy, render-from-image) is invoked twice, and a successful run
\* performs exactly one segment-producing operation.
C38_AtMostOnce ==
    /\ \A op \in {"tts", "media", "download", "compose", "overlay"} :
          Cardinality(CallsOf(op)) <= 1
    /\ Cardinality({i \in DOMAIN calls : calls[i].op \in SegmentOps}) <= 1
    /\ Returned
       => Cardinality({i \in DOMAIN calls :
                          calls[i].op \in SegmentOps /\ calls[i].ok}) = 1

C38_Witness ==
    /\ Returned
    /\ \A op \in {"tts", "media", "download", "compose", "overlay", "merge"} :
          Cardinality(CallsOf(op)) = 1
    /\ ~Called("copy") /\ ~Called("render")

\* a video was generated and stored: its download returned and, when the
\* generator gave no duration, the file has been probed
VideoStored ==
    /\ media_result.media_type = "video"
    /\ \E i \in CallsOf("download") : calls[i].ok
    /\ pc # "video_probe"

PcRank(p) ==
    CASE p = "audio" -> 1
      [] p = "audio_probe" -> 2
      [] p = "media" -> 3
      [] p = "download" -> 4
      [] p = "video_probe" -> 5
      [] p = "compose" -> 6
      [] p = "segment" -> 7
      [] p \in {"returned", "raised"} -> 8
      [] OTHER -> 0

\* C40: if every external call returns or raises, every invocation of
\* process terminates, either by returning the frame it was given with
\* video_segment_path assigned, or by raising; once terminated it takes no
\* further step, and no step is ever repeated.
C40_Terminates ==
    /\ <>(Returned \/ Raised)
    /\ [](Returned => /\ error = NoError
                      /\ frame.video_segment_path = SegmentPath
                      /\ frame.index = entry.index
                      /\ frame.narration = entry.narration)
    /\ [](Raised => error # NoError /\ frame.video_segment_path = NoPath)
    /\ [](error # NoError => Raised)
    /\ [][PcRank(pc) < PcRank(pc') /\ ~(Returned \/ Raised)]_vars

C40_Witness ==
    /\ Returned
    /\ Called("tts") /\ Called("media") /\ Called("download")
    /\ Called("compose") /\ Called("overlay") /\ Called("merge")
    /\ frame.video_segment_path \in DOMAIN fs

C40_WitnessRaised ==
    /\ Raised
    /\ error.at = "segment" /\ error.what = "merge"
    /\ frame.video_segment_path = NoPath

====
